---- MODULE Spec2Model ----
(***************************************************************************)
(* Model of contrib/drf_introspection/serializers.py: the three serializer *)
(* mixins IntrospectableSerializerMixin, DynamicFieldsSerializerMixin and  *)
(* StrictSerializerMixin.                                                  *)
(*                                                                         *)
(* A Python str is a sequence of one-character strings, a field name is a  *)
(* Python str, a Python list of names is a sequence of names.  A keyword   *)
(* argument value carries its Python type in `kind`.                       *)
(***************************************************************************)
EXTENDS Integers, Sequences, FiniteSets, TLC

VARIABLES
    state,          \* "new": nothing constructed; "constructed"; "failed": __init__ raised
    inp,            \* the class, keyword arguments and context of the construction
    fields,         \* self.fields.keys(), the live field collection
    _extra_fields,  \* self._extra_fields
    locals,         \* the merged `fields` / `exclude_fields` lists of __init__
    raised,         \* the exception the last call raised, NoError if none
    call            \* the last call on the instance and what it did

vars == <<state, inp, fields, _extra_fields, locals, raised, call>>

----------------------------------------------------------------------------
(* Bounds of the explored inputs *)

MaxListLen == 1
MaxStrLen == 3
MaxRequestNames == 3
MaxExtraLen == 2

Chars == {"a", "b", ","}

A == <<"a">>
B == <<"b">>
E == <<"e">>
AB == <<"a", "b">>
X == <<"x">>

SeqsUpTo(S, n) == UNION {[1..k -> S] : k \in 0..n}

List(v) == [kind |-> "list", val |-> v]
Str(v) == [kind |-> "str", val |-> v]

ToSet(s) == {s[i] : i \in DOMAIN s}

----------------------------------------------------------------------------
(* Exceptions *)

NoError == [type |-> "none", message |-> "", filter |-> "", names |-> {}]

FieldError(message, filter, names) ==
    [type |-> "FieldError", message |-> message, filter |-> filter, names |-> names]

ValidationError(message) ==
    [type |-> "ValidationError", message |-> message, filter |-> "", names |-> {}]

----------------------------------------------------------------------------
(* Module-level helpers *)

\* dict.pop(key, default) as used on kwargs: the value only
pop(args, key, default) == IF key \in DOMAIN args THEN args[key] ELSE default

\* str.split(sep): the pieces of s between occurrences of sep
RECURSIVE split(_, _)
split(s, sep) ==
    IF \A i \in DOMAIN s : s[i] # sep
    THEN <<s>>
    ELSE LET i == CHOOSE k \in DOMAIN s :
                     s[k] = sep /\ \A j \in 1..(k - 1) : s[j] # sep
         IN <<SubSeq(s, 1, i - 1)>> \o split(SubSeq(s, i + 1, Len(s)), sep)

\* set(iterable) / set.update(iterable): iterating a list yields its
\* elements, iterating a str yields its one-character strings
Iterate(values) ==
    IF values.kind = "list"
    THEN ToSet(values.val)
    ELSE {<<values.val[i]>> : i \in DOMAIN values.val}

\* message % ', '.join('"%s"' % f for f in fields): the message with the
\* names it lists
_error_with_fields(message, names) == FieldError(message, "", names)

\* variant: the error lists every name of the filter
_verify_field_names_all(names, valid_fields, filter_name) ==
    IF names # <<>> /\ ToSet(names) \ valid_fields # {}
    THEN FieldError("Unknown fields in filter", filter_name, ToSet(names))
    ELSE NoError

_verify_field_names(names, valid_fields, filter_name) ==
    IF names # <<>>
    THEN LET invalid_field_names == ToSet(names) \ valid_fields
         IN IF invalid_field_names # {}
            THEN FieldError("Unknown fields in filter", filter_name,
                            invalid_field_names)
            ELSE NoError
    ELSE NoError

_pop_field_list(args, argument_name) ==
    LET values == pop(args, argument_name, List(<<>>))
    IN IF values.kind = "list" THEN values.val ELSE split(values.val, ",")

----------------------------------------------------------------------------
(* IntrospectableSerializerMixin *)

\* variant: extra_fields goes through _pop_field_list
Introspectable_init_split(cls, kwargs) ==
    (IF cls.has_extra_fields THEN cls.extra_fields ELSE {})
        \cup ToSet(_pop_field_list(kwargs, "extra_fields"))

\* __init__: the value of self._extra_fields
Introspectable_init(cls, kwargs) ==
    (IF cls.has_extra_fields THEN cls.extra_fields ELSE {})
        \cup Iterate(pop(kwargs, "extra_fields", List(<<>>)))

\* variant: the declared fields instead of the live ones
get_allowed_keys_declared(self) ==
    [ret |-> self.declared \cup self._extra_fields, self |-> self]

\* variant: the union is accumulated in self._extra_fields
get_allowed_keys_updating(self) ==
    [ret |-> self.fields \cup self._extra_fields,
     self |-> [self EXCEPT !._extra_fields = self.fields \cup self._extra_fields]]

\* the returned set, and the instance after the call
get_allowed_keys(self) ==
    [ret |-> self.fields \cup self._extra_fields, self |-> self]

----------------------------------------------------------------------------
(* DynamicFieldsSerializerMixin *)

\* variant: top_level is not consulted
merge_request_params_any_level(context, names, exclude_names) ==
    IF context.is_dict /\ context.has_request
    THEN [fields |-> names \o context.query_params.fields,
          exclude_fields |-> exclude_names \o context.query_params.exclude_fields]
    ELSE [fields |-> names, exclude_fields |-> exclude_names]

\* the `fields` and `exclude_fields` lists after the request's query
\* parameters were appended; top_level is "absent", "True" or "False" and
\* context.get('top_level', True) is falsy only for "False"
merge_request_params(context, names, exclude_names) ==
    IF context.is_dict
    THEN LET request == context.has_request
             top_level == context.top_level # "False"
         IN IF request /\ top_level
            THEN [fields |-> names \o context.query_params.fields,
                  exclude_fields |->
                      exclude_names \o context.query_params.exclude_fields]
            ELSE [fields |-> names, exclude_fields |-> exclude_names]
    ELSE [fields |-> names, exclude_fields |-> exclude_names]

\* variant: exclude_fields is skipped when fields is given
select_fields_include_only(valid_fields, names, exclude_names) ==
    IF names # <<>>
    THEN valid_fields \ (valid_fields \ ToSet(names))
    ELSE IF exclude_names # <<>>
         THEN valid_fields \ ToSet(exclude_names)
         ELSE valid_fields

\* self.fields.keys() after the pops of the selection
select_fields(valid_fields, names, exclude_names) ==
    IF names # <<>>
    THEN LET selected == IF exclude_names # <<>>
                         THEN ToSet(names) \ ToSet(exclude_names)
                         ELSE ToSet(names)
         IN valid_fields \ (valid_fields \ selected)
    ELSE IF exclude_names # <<>>
         THEN valid_fields \ ToSet(exclude_names)
         ELSE valid_fields

\* variant: exclude_fields is verified after the pops for fields
verify_and_select_late(valid_fields, names, exclude_names) ==
    LET e1 == _verify_field_names(names, valid_fields, "fields")
        e2 == _verify_field_names(exclude_names, valid_fields, "exclude_fields")
    IN IF e1 # NoError
       THEN [fields |-> valid_fields, raised |-> e1]
       ELSE IF e2 # NoError
            THEN [fields |-> select_fields(valid_fields, names, <<>>),
                  raised |-> e2]
            ELSE [fields |-> select_fields(valid_fields, names, exclude_names),
                  raised |-> NoError]

\* both verifications, then the selection: the field collection when
\* __init__ returns or raises
verify_and_select(valid_fields, names, exclude_names) ==
    LET e1 == _verify_field_names(names, valid_fields, "fields")
        e2 == _verify_field_names(exclude_names, valid_fields, "exclude_fields")
    IN IF e1 # NoError
       THEN [fields |-> valid_fields, raised |-> e1]
       ELSE IF e2 # NoError
            THEN [fields |-> valid_fields, raised |-> e2]
            ELSE [fields |-> select_fields(valid_fields, names, exclude_names),
                  raised |-> NoError]

\* __init__ of a StrictSerializerMixin serializer: DynamicFieldsSerializerMixin
\* pops its two arguments, IntrospectableSerializerMixin.__init__ runs as
\* super().__init__, then the request is read and the fields are selected
Dynamic_init(cls, kwargs, context) ==
    LET fields0 == _pop_field_list(kwargs, "fields")
        exclude0 == _pop_field_list(kwargs, "exclude_fields")
        extra == Introspectable_init(cls, kwargs)
        merged == merge_request_params(context, fields0, exclude0)
        valid_fields == cls.declared
        done == verify_and_select(valid_fields, merged.fields,
                                  merged.exclude_fields)
    IN [fields |-> done.fields, _extra_fields |-> extra,
        locals |-> merged, raised |-> done.raised]

----------------------------------------------------------------------------
(* StrictSerializerMixin *)

maybe_raise_error(extra_fields) ==
    IF extra_fields # {}
    THEN _error_with_fields("Unknown fields", extra_fields)
    ELSE NoError

_is_read_only(self, field_name) ==
    IF field_name \notin self.fields
    THEN FALSE
    ELSE field_name \in self.read_only

\* variant: the error lists every key of the payload
check_read_only_fields_all(self, keys) ==
    IF \E key \in keys : _is_read_only(self, key)
    THEN _error_with_fields("Can not update read only fields", keys)
    ELSE NoError

check_read_only_fields(self, keys) ==
    LET updated_read_only == {key \in keys : _is_read_only(self, key)}
    IN IF updated_read_only # {}
       THEN _error_with_fields("Can not update read only fields",
                               updated_read_only)
       ELSE NoError

\* what a call that raised or returned leaves behind: the exception, the
\* calls made in order, whether super().to_internal_value ran, the instance
Outcome(err, calls, delegated, self) ==
    [raised |-> err, calls |-> calls, delegated |-> delegated, self |-> self]

\* lines 134-137, given the result of get_allowed_keys
to_internal_value_checked(self, data, allowed) ==
    LET extra_fields == data.keys \ allowed.ret
        e1 == maybe_raise_error(extra_fields)
        e2 == check_read_only_fields(allowed.self, data.keys)
    IN IF e1 # NoError
       THEN Outcome(e1, <<"get_allowed_keys", "maybe_raise_error">>, FALSE,
                    allowed.self)
       ELSE IF e2 # NoError
            THEN Outcome(e2, <<"get_allowed_keys", "maybe_raise_error",
                               "check_read_only_fields">>, FALSE, allowed.self)
            ELSE Outcome(NoError,
                         <<"get_allowed_keys", "maybe_raise_error",
                           "check_read_only_fields", "super.to_internal_value">>,
                         TRUE, allowed.self)

\* variant: the extra fields are not allowed
to_internal_value_fields_only(self, data) ==
    IF data.kind # "dict"
    THEN Outcome(ValidationError("Invalid input: must be a dict."), <<>>,
                 FALSE, self)
    ELSE to_internal_value_checked(self, data,
                                   [ret |-> self.fields, self |-> self])

\* variant: no type check
to_internal_value_any_type(self, data) ==
    to_internal_value_checked(self, data, get_allowed_keys(self))

to_internal_value(self, data) ==
    IF data.kind # "dict"
    THEN Outcome(ValidationError("Invalid input: must be a dict."), <<>>,
                 FALSE, self)
    ELSE to_internal_value_checked(self, data, get_allowed_keys(self))

----------------------------------------------------------------------------
(* The explored classes, keyword arguments, contexts and payloads *)

FieldNames == {A, B}
ArgNames == {A, B, X}
RequestNames == {A, B}
ExtraNames == {E, AB}
PayloadKeys == {A, B, E}

Class(declared, read_only, has_extra_fields, extra_fields) ==
    [declared |-> declared, read_only |-> read_only,
     has_extra_fields |-> has_extra_fields, extra_fields |-> extra_fields]

\* serializer classes without a class attribute `extra_fields`
PlainClasses ==
    UNION {{Class(d, r, FALSE, {}) : r \in SUBSET d} : d \in SUBSET FieldNames}

\* the plain classes without read-only fields
WritableClasses == {Class(d, {}, FALSE, {}) : d \in SUBSET FieldNames}

\* serializer classes that define `extra_fields`
ExtraClasses ==
    UNION {UNION {{Class(d, r, TRUE, x) : r \in SUBSET d} :
                    d \in SUBSET FieldNames} : x \in {{A, E}}}

Lists(S, n) == {List(v) : v \in SeqsUpTo(S, n)}
Strs(n) == {Str(v) : v \in SeqsUpTo(Chars, n)}

ListArgs == Lists(ArgNames, MaxListLen)
FieldArgs == ListArgs \cup Strs(MaxStrLen)
ExtraArgs == Lists(ExtraNames, MaxExtraLen) \cup Strs(MaxExtraLen)

NoQuery == [fields |-> <<>>, exclude_fields |-> <<>>]

Context(is_dict, has_request, top_level, query_params) ==
    [is_dict |-> is_dict, has_request |-> has_request,
     top_level |-> top_level, query_params |-> query_params]

TopLevels == {"absent", "True", "False"}

\* a context without a request
PlainContext == Context(TRUE, FALSE, "absent", NoQuery)

\* contexts without a usable request, and contexts with a request whose
\* query parameters are qf and qe
NoRequestContexts ==
    {Context(FALSE, FALSE, "absent", NoQuery)}
    \cup {Context(TRUE, FALSE, t, NoQuery) : t \in TopLevels}

RequestContexts(qf, qe) ==
    {Context(TRUE, TRUE, t, [fields |-> qf, exclude_fields |-> qe]) :
        t \in TopLevels}

RequestLists == SeqsUpTo(RequestNames, MaxRequestNames)

Input(cls, kwargs, context) ==
    [cls |-> cls, kwargs |-> kwargs, context |-> context]

\* keyword arguments `fields` and `exclude_fields`, lists or strings, at
\* least one of them a list
KeywordInputs ==
    {Input(c, [fields |-> f, exclude_fields |-> e], PlainContext) :
        c \in PlainClasses, f \in FieldArgs, e \in ListArgs}
    \cup {Input(c, [fields |-> f, exclude_fields |-> e], PlainContext) :
            c \in PlainClasses, f \in ListArgs, e \in FieldArgs}

\* list arguments together with a request in the context
RequestInputs ==
    {Input(c, [fields |-> List(f), exclude_fields |-> List(e)], ctx) :
        c \in WritableClasses, f \in SeqsUpTo(RequestNames, 1),
        e \in SeqsUpTo(RequestNames, 1), ctx \in NoRequestContexts}
    \cup UNION {
        {Input(c, [fields |-> List(q[1]), exclude_fields |-> List(q[2])], ctx) :
            c \in WritableClasses, ctx \in RequestContexts(q[3], q[4])} :
        q \in {r \in RequestLists \X RequestLists \X RequestLists \X RequestLists :
                 Len(r[1]) + Len(r[2]) + Len(r[3]) + Len(r[4])
                     <= MaxRequestNames}}

\* the keyword argument `extra_fields`, alone or with an exclusion
ExtraInputs ==
    {Input(c, [extra_fields |-> x], PlainContext) :
        c \in WritableClasses \cup ExtraClasses, x \in ExtraArgs}
    \cup {Input(c, [extra_fields |-> x, exclude_fields |-> List(<<A>>)],
                PlainContext) :
            c \in WritableClasses \cup ExtraClasses, x \in ExtraArgs}

Inputs == KeywordInputs \cup RequestInputs \cup ExtraInputs

Dict(keys) == [kind |-> "dict", keys |-> keys]
NonMapping(kind) == [kind |-> kind, keys |-> {}]

Payloads == {Dict(ks) : ks \in SUBSET PayloadKeys}
                \cup {NonMapping("list"), NonMapping("str")}

----------------------------------------------------------------------------
(* The serializer instance and the calls on it *)

Self ==
    [fields |-> fields, read_only |-> inp.cls.read_only,
     declared |-> inp.cls.declared, _extra_fields |-> _extra_fields]

NoCall ==
    [op |-> "none", data |-> Dict({}), ret |-> {}, calls |-> <<>>,
     delegated |-> FALSE,
     before |-> [fields |-> {}, _extra_fields |-> {}]]

\* the instance as it is when a call starts
Before == [fields |-> fields, _extra_fields |-> _extra_fields]

Init ==
    /\ state = "new"
    /\ inp = Input(Class({}, {}, FALSE, {}), [fields |-> List(<<>>)], PlainContext)
    /\ fields = {}
    /\ _extra_fields = {}
    /\ locals = NoQuery
    /\ raised = NoError
    /\ call = NoCall

\* serializer = SerializerClass(**kwargs, context=context)
Construct ==
    /\ state = "new"
    /\ \E in \in Inputs :
        LET r == Dynamic_init(in.cls, in.kwargs, in.context)
        IN /\ inp' = in
           /\ fields' = r.fields
           /\ _extra_fields' = r._extra_fields
           /\ locals' = r.locals
           /\ raised' = r.raised
           /\ state' = IF r.raised = NoError THEN "constructed" ELSE "failed"
           /\ call' = [NoCall EXCEPT !.op = "__init__"]

\* serializer.get_allowed_keys()
GetAllowedKeys ==
    /\ state = "constructed"
    /\ LET r == get_allowed_keys(Self)
       IN /\ fields' = r.self.fields
          /\ _extra_fields' = r.self._extra_fields
          /\ raised' = NoError
          /\ call' = [NoCall EXCEPT
                        !.op = "get_allowed_keys", !.ret = r.ret,
                        !.before = Before]
    /\ UNCHANGED <<state, inp, locals>>

\* serializer.to_internal_value(data)
ToInternalValue ==
    /\ state = "constructed"
    /\ \E data \in Payloads :
        LET r == to_internal_value(Self, data)
        IN /\ fields' = r.self.fields
           /\ _extra_fields' = r.self._extra_fields
           /\ raised' = r.raised
           /\ call' = [NoCall EXCEPT
                         !.op = "to_internal_value", !.data = data,
                         !.calls = r.calls, !.delegated = r.delegated,
                         !.before = Before]
    /\ UNCHANGED <<state, inp, locals>>

Next == Construct \/ GetAllowedKeys \/ ToInternalValue

Spec == Init /\ [][Next]_vars

----------------------------------------------------------------------------
(* Vocabulary of the properties *)

Declared == inp.cls.declared
ClassExtra == IF inp.cls.has_extra_fields THEN inp.cls.extra_fields ELSE {}

\* the merged include and exclude names of the construction
IncludeNames == ToSet(locals.fields)
ExcludeNames == ToSet(locals.exclude_fields)

\* the include and exclude names of the constructor arguments alone
ArgList(name) ==
    IF name \notin DOMAIN inp.kwargs THEN <<>>
    ELSE IF inp.kwargs[name].kind = "list" THEN inp.kwargs[name].val
         ELSE split(inp.kwargs[name].val, ",")

AllDeclared(I, Ex) == I \subseteq Declared /\ Ex \subseteq Declared

\* (I or F) - E
Selection(I, Ex) == (IF I # {} THEN I ELSE Declared) \ Ex

Constructed == state = "constructed"
Failed == state = "failed"
Called(op) == Constructed /\ call.op = op
MappingCall == Called("to_internal_value") /\ call.data.kind = "dict"

AllowedKeys == fields \cup _extra_fields
UnknownKeys == call.data.keys \ AllowedKeys
ReadOnlyKeys == {k \in call.data.keys : k \in fields /\ k \in inp.cls.read_only}

RaisedUnknown(names) ==
    raised = FieldError("Unknown fields", "", names) /\ ~call.delegated
RaisedReadOnly(names) ==
    raised = FieldError("Can not update read only fields", "", names)
        /\ ~call.delegated

----------------------------------------------------------------------------
(* Properties *)

\* C1: when every include and exclude name is declared, construction
\* succeeds and leaves exactly the names (I if I is non-empty, else F)
\* minus E in the field collection.
C1_SelectionIsIncludeMinusExclude ==
    (state # "new" /\ AllDeclared(IncludeNames, ExcludeNames))
        => Constructed /\ fields = Selection(IncludeNames, ExcludeNames)

\* a name in both lists was removed while another included name survived
C1_Witness ==
    /\ Constructed
    /\ IncludeNames \cap ExcludeNames # {}
    /\ IncludeNames \ ExcludeNames # {}
    /\ fields = IncludeNames \ ExcludeNames
    /\ fields # Declared

\* C2: an undeclared name in the merged `fields` or `exclude_fields` list
\* makes construction raise a FieldError that names one of the two filters
\* and lists exactly the undeclared names of that filter.
C2_UnknownNamesRaise ==
    (state # "new" /\ ~AllDeclared(IncludeNames, ExcludeNames))
        => /\ Failed
           /\ raised.type = "FieldError"
           /\ raised.message = "Unknown fields in filter"
           /\ raised.filter \in {"fields", "exclude_fields"}
           /\ raised.names # {}
           /\ raised.names = ToSet(locals[raised.filter]) \ Declared

\* the failing filter also held a declared name, which the error omits
C2_Witness ==
    /\ Failed
    /\ raised.filter = "exclude_fields"
    /\ ExcludeNames \cap Declared # {}
    /\ raised.names = ExcludeNames \ Declared
    /\ raised.names # {}

\* C3: a mapping payload with a key outside fields + extra fields raises
\* the unknown-fields FieldError listing exactly those keys, without
\* delegating; a payload of allowed keys never raises that error.
C3_UnknownKeysRaise ==
    MappingCall
        => /\ UnknownKeys # {} => RaisedUnknown(UnknownKeys)
           /\ UnknownKeys = {} => raised.message # "Unknown fields"

\* a payload with an allowed extra key, an allowed field and an unknown key
C3_Witness ==
    /\ MappingCall
    /\ UnknownKeys # {}
    /\ (call.data.keys \cap _extra_fields) \ fields # {}
    /\ call.data.keys \cap fields # {}
    /\ RaisedUnknown(UnknownKeys)

\* C4 as stated: a mapping payload with a read-only key raises the
\* read-only FieldError listing exactly the read-only keys.
C4_ReadOnlyAlwaysReported ==
    (MappingCall /\ ReadOnlyKeys # {})
        => RaisedReadOnly(ReadOnlyKeys)

\* C4 amended: a mapping payload of allowed keys with a read-only key raises
\* the read-only FieldError listing exactly the read-only keys; with an
\* unknown key as well, the unknown-fields error is raised instead.  Neither
\* delegates.
C4_ReadOnlyReportedAfterUnknown ==
    (MappingCall /\ ReadOnlyKeys # {})
        => /\ UnknownKeys = {} => RaisedReadOnly(ReadOnlyKeys)
           /\ UnknownKeys # {} => RaisedUnknown(UnknownKeys)

\* a read-only key reported next to a writable key that is not
C4_Witness ==
    /\ MappingCall
    /\ UnknownKeys = {}
    /\ ReadOnlyKeys # {}
    /\ call.data.keys \ ReadOnlyKeys # {}
    /\ RaisedReadOnly(ReadOnlyKeys)

\* C5: a payload that is not a mapping raises ValidationError before any
\* check: no call was made and nothing was delegated.
C5_NonMappingRejectedFirst ==
    (Called("to_internal_value") /\ call.data.kind # "dict")
        => /\ raised = ValidationError("Invalid input: must be a dict.")
           /\ call.calls = <<>>
           /\ ~call.delegated

\* a non-mapping payload on a serializer with read-only and extra fields
C5_Witness ==
    /\ Called("to_internal_value")
    /\ call.data.kind = "str"
    /\ raised.type = "ValidationError"
    /\ fields \cap inp.cls.read_only # {}
    /\ _extra_fields # {}

\* the request's query parameters are read
QueryApplies ==
    /\ inp.context.is_dict
    /\ inp.context.has_request
    /\ inp.context.top_level # "False"

\* the outcome of construction is the one the lists I and Ex determine
OutcomeOf(I, Ex) ==
    /\ locals.fields = I
    /\ locals.exclude_fields = Ex
    /\ Failed <=> ~AllDeclared(ToSet(I), ToSet(Ex))
    /\ fields = IF AllDeclared(ToSet(I), ToSet(Ex))
                THEN Selection(ToSet(I), ToSet(Ex))
                ELSE Declared

\* C6 as stated: unless the context marks the instance top-level, the
\* outcome of construction is the one of the constructor arguments alone.
C6_QueryOnlyWhenMarkedTopLevel ==
    (state # "new" /\ ~(inp.context.is_dict /\ inp.context.top_level = "True"))
        => OutcomeOf(ArgList("fields"), ArgList("exclude_fields"))

\* C6 amended: the query parameters are applied unless the context marks the
\* instance as not top-level (top_level is true when the context does not
\* set it).  With top_level false, or without a request, the outcome is the
\* one of the constructor arguments alone; otherwise the query names are
\* appended to the argument names before validation and selection.
C6_QueryUnlessMarkedNotTopLevel ==
    state # "new"
        => IF QueryApplies
           THEN OutcomeOf(
                    ArgList("fields") \o inp.context.query_params.fields,
                    ArgList("exclude_fields")
                        \o inp.context.query_params.exclude_fields)
           ELSE OutcomeOf(ArgList("fields"), ArgList("exclude_fields"))

\* a nested serializer: the request names fields that would have changed the
\* selection, and they were ignored
C6_Witness ==
    /\ Constructed
    /\ inp.context.has_request
    /\ inp.context.top_level = "False"
    /\ inp.context.query_params.fields # <<>>
    /\ ToSet(inp.context.query_params.fields) \subseteq Declared
    /\ ToSet(inp.context.query_params.fields) # Declared
    /\ ArgList("fields") = <<>>
    /\ inp.context.query_params.exclude_fields # <<>>
    /\ fields = Declared \ ToSet(ArgList("exclude_fields"))

\* the `extra_fields` argument of the construction
ExtraArg == pop(inp.kwargs, "extra_fields", List(<<>>))

\* C7 as stated: `extra_fields` given as the comma-separated string of the
\* names N allows the fields, the class-level extra fields and exactly N.
C7_ExtraFieldsStringIsSplit ==
    (Called("get_allowed_keys") /\ ExtraArg.kind = "str")
        => call.ret = fields \cup ClassExtra
                          \cup ToSet(split(ExtraArg.val, ","))

\* C7 amended: `extra_fields` given as a list of names N allows the fields,
\* the class-level extra fields and exactly N; given as a string it is not
\* split at commas: every character of the string, commas included, becomes
\* an allowed name.
C7_ExtraFieldsListOrCharacters ==
    Called("get_allowed_keys")
        => call.ret = fields \cup ClassExtra \cup
              (IF ExtraArg.kind = "list"
               THEN ToSet(ExtraArg.val)
               ELSE {<<ExtraArg.val[i]>> : i \in DOMAIN ExtraArg.val})

\* a string of two names: its characters are allowed, its names are not
C7_Witness ==
    /\ Called("get_allowed_keys")
    /\ ExtraArg = Str(<<"a", "b">>)
    /\ inp.cls.has_extra_fields
    /\ AB \notin call.ret
    /\ <<"b">> \in call.ret
    /\ <<"b">> \notin fields

\* C8: get_allowed_keys returns the names of the field collection united
\* with the extra field names (class-level and per-instance list), and
\* leaves the field collection and the extra field names as they were.
C8_AllowedKeysIsPureUnion ==
    Called("get_allowed_keys")
        => /\ call.ret = call.before.fields \cup call.before._extra_fields
           /\ fields = call.before.fields
           /\ _extra_fields = call.before._extra_fields
           /\ ExtraArg.kind = "list"
                => call.before._extra_fields
                       = ClassExtra \cup ToSet(ExtraArg.val)

\* class-level and per-instance extra names next to a reduced collection
C8_Witness ==
    /\ Called("get_allowed_keys")
    /\ ExtraArg.kind = "list"
    /\ ToSet(ExtraArg.val) \ ClassExtra # {}
    /\ ClassExtra \ fields # {}
    /\ fields # {}
    /\ fields # Declared
    /\ call.ret = fields \cup ClassExtra \cup ToSet(ExtraArg.val)

\* C9: when construction raises for an unknown name, no field has been
\* removed from the field collection.
C9_FailedSelectionRemovesNothing ==
    Failed => /\ raised.message = "Unknown fields in filter"
              /\ fields = Declared

\* valid `fields` that would remove a field, then an invalid `exclude_fields`
C9_Witness ==
    /\ Failed
    /\ raised.filter = "exclude_fields"
    /\ IncludeNames # {}
    /\ IncludeNames \subseteq Declared
    /\ Declared \ IncludeNames # {}
    /\ fields = Declared

\* the declared fields the selection removed that are no extra fields
RemovedFields == (Declared \ Selection(IncludeNames, ExcludeNames)) \ _extra_fields

\* C10: a payload key naming a field that selection removed, and that is no
\* extra field, raises the unknown-fields error listing it, never the
\* read-only error; surviving fields and extra fields are never listed.
C10_AllowedKeysFollowSelection ==
    MappingCall
        => /\ call.data.keys \cap RemovedFields # {}
               => /\ raised.type = "FieldError"
                  /\ raised.message = "Unknown fields"
                  /\ call.data.keys \cap RemovedFields \subseteq raised.names
                  /\ ~call.delegated
           /\ raised.message = "Unknown fields"
               => raised.names \cap (fields \cup _extra_fields) = {}

\* a removed read-only field in the payload next to a surviving field
C10_Witness ==
    /\ MappingCall
    /\ \E f \in call.data.keys \cap RemovedFields : f \in inp.cls.read_only
    /\ call.data.keys \cap fields # {}
    /\ raised.message = "Unknown fields"
    /\ raised.names = call.data.keys \cap RemovedFields

====
